---- MODULE Spec2Model ----
(***************************************************************************)
(* Model of src/src/pair_scanner.py: fetch_ticker_data and the loop,       *)
(* ranking and report of analyze_ticker_pairs.                             *)
(*                                                                         *)
(* Numbers.  Prices and spreads are integers.  Every float the code        *)
(* derives with a division or a square root (mean, std, correlation,       *)
(* z_score, mean_rev_prob, total_score) is a fixed-point value: a record   *)
(* [nan, val] standing for val / Scale, or for not-a-number when nan is    *)
(* TRUE.  Divisions truncate toward zero, so negating the inputs negates   *)
(* the result exactly, as it does in IEEE arithmetic.                      *)
(***************************************************************************)
EXTENDS Integers, Sequences, FiniteSets, TLC

\* Bounds of the model.
MaxWeeks == 2       \* weeks of the date range in Spec
PairWeeks == 3      \* weeks of the date range in SpecPair
BigPrice == 21      \* one far larger close, used in SpecPair
Scale == 10         \* fixed-point resolution: a float x is stored as x * Scale

\* The instrument symbols, in alphabetical order.
Universe == <<"A", "B", "C">>
\* The weekly adjusted closes an instrument can have, in Spec and in SpecPair.
Closes == {1, 2}
PairCloses == {1, 2, BigPrice}

VARIABLES
    tickers,          \* the input list of analyze_ticker_pairs
    yf,               \* what yf.download yields for each ticker in this run
    pc,               \* "loop" | "done"; in SpecPair "pair0" | "pair1" | "pair2"
    k,                \* index of the next pair of itertools.combinations
    pair_scores,      \* list of signal records
    long_positions,   \* list of tickers
    short_positions,  \* list of tickers
    result,           \* the returned dictionary (set by the report step)
    file,             \* the chunks written to output_file, in order
    visited,          \* history: the pairs the loop has visited, with outcome
    opens,            \* history: how many times output_file was opened
    accAB,            \* SpecPair: accumulators after the loop body on (A, B)
    accBA             \* SpecPair: accumulators after the loop body on (B, A)

vars == <<tickers, yf, pc, k, pair_scores, long_positions, short_positions,
          result, file, visited, opens, accAB, accBA>>

----------------------------------------------------------------------------
\* Floats

NaN == [nan |-> TRUE, val |-> 0]
F(v) == [nan |-> FALSE, val |-> v]

Abs(x) == IF x < 0 THEN -x ELSE x
Sign(x) == IF x < 0 THEN -1 ELSE IF x > 0 THEN 1 ELSE 0
\* division truncating toward zero
TDiv(a, b) == Sign(a) * Sign(b) * (Abs(a) \div Abs(b))

RECURSIVE ISqrtB(_, _, _)
ISqrtB(x, lo, hi) ==
    IF lo >= hi THEN lo
    ELSE LET mid == (lo + hi + 1) \div 2
         IN IF mid * mid <= x THEN ISqrtB(x, mid, hi) ELSE ISqrtB(x, lo, mid - 1)
\* floor of the square root
ISqrt(x) == ISqrtB(x, 0, IF x < 40000 THEN x ELSE 40000)

FAbs(a) == IF a.nan THEN NaN ELSE F(Abs(a.val))
FAdd(a, b) == IF a.nan \/ b.nan THEN NaN ELSE F(a.val + b.val)
FSub(a, b) == IF a.nan \/ b.nan THEN NaN ELSE F(a.val - b.val)
FMulInt(a, n) == IF a.nan THEN NaN ELSE F(a.val * n)
FDivInt(a, n) == IF a.nan THEN NaN ELSE F(TDiv(a.val, n))
\* a / b; b = 0 (inf or nan in numpy) is never reached behind the guard of z_score
FDiv(a, b) ==
    IF a.nan \/ b.nan \/ b.val = 0 THEN NaN ELSE F(TDiv(a.val * Scale, b.val))
\* comparisons: every comparison with NaN is false, != is true
FLt(a, b) == ~a.nan /\ ~b.nan /\ a.val < b.val
FGt(a, b) == FLt(b, a)
FGe(a, b) == ~a.nan /\ ~b.nan /\ a.val >= b.val
FNe(a, b) == a.nan \/ b.nan \/ a.val # b.val
\* Python's builtin min(a, b) and max(a, b): the first argument is kept unless
\* the second compares strictly smaller (larger)
PyMin(a, b) == IF FLt(b, a) THEN b ELSE a
PyMax(a, b) == IF FGt(b, a) THEN b ELSE a

----------------------------------------------------------------------------
\* Sequences and series

RECURSIVE SumSeq(_)
SumSeq(s) == IF s = <<>> THEN 0 ELSE Head(s) + SumSeq(Tail(s))

RECURSIVE MaxSeq(_)
MaxSeq(s) ==
    IF Len(s) = 1 THEN s[1]
    ELSE LET m == MaxSeq(Tail(s)) IN IF s[1] >= m THEN s[1] ELSE m

RECURSIVE MinSeq(_)
MinSeq(s) ==
    IF Len(s) = 1 THEN s[1]
    ELSE LET m == MinSeq(Tail(s)) IN IF s[1] <= m THEN s[1] ELSE m

Reverse(s) == [i \in 1..Len(s) |-> s[Len(s) + 1 - i]]

\* the weeks of a set, in chronological order
RECURSIVE SortedWeeks(_)
SortedWeeks(W) ==
    IF W = {} THEN <<>>
    ELSE LET m == CHOOSE w \in W : \A v \in W : w <= v
         IN <<m>> \o SortedWeeks(W \ {m})

\* the weekly adjusted-close series over weeks 1..n with closes in P: a
\* function from the weeks that have a value
SeriesOver(n, P) == UNION {[W -> P] : W \in (SUBSET (1..n)) \ {{}}}

----------------------------------------------------------------------------
\* fetch_ticker_data

None == [none |-> TRUE, rows |-> <<>>]
Some(rows) == [none |-> FALSE, rows |-> rows]

\* faulty variant: the data.empty check is left out
fetch_ticker_data_NoEmptyCheck(ticker) ==
    IF yf[ticker].raises THEN None ELSE Some(yf[ticker].rows)

\* yf[ticker] is what yf.download does for the ticker: it raises, or it returns
\* a frame whose rows are the adjusted closes (an empty frame has no rows).
\* The rows are kept per week: the last adjusted close of each week that has
\* one, which is what resample("W").last() leaves of them after dropna.
fetch_ticker_data(ticker) ==
    IF yf[ticker].raises THEN None
    ELSE IF DOMAIN yf[ticker].rows = {} THEN None
    ELSE Some(yf[ticker].rows)

----------------------------------------------------------------------------
\* The body of the loop of analyze_ticker_pairs

\* pd.concat(axis=1) and dropna: the weeks both series have, in order
AlignedWeeks(rows1, rows2) == SortedWeeks(DOMAIN rows1 \cap DOMAIN rows2)
AlignedColumn(rows, weeks) == [i \in 1..Len(weeks) |-> rows[weeks[i]]]

Spread(series1, series2) == [i \in 1..Len(series1) |-> series1[i] - series2[i]]

highest(spread) == MaxSeq(spread)
lowest(spread) == MinSeq(spread)
current(spread) == spread[Len(spread)]

\* n * sum(x*y) - sum(x) * sum(y)
CoMoment(x, y) ==
    Len(x) * SumSeq([i \in 1..Len(x) |-> x[i] * y[i]]) - SumSeq(x) * SumSeq(y)

\* Series.corr: Pearson's r; not-a-number when a series has no variance
Corr(series1, series2) ==
    LET sxx == CoMoment(series1, series1)
        syy == CoMoment(series2, series2)
        sxy == CoMoment(series1, series2)
    IN IF sxx = 0 \/ syy = 0 THEN NaN
       ELSE F(Sign(sxy) * ISqrt((Scale * Scale * sxy * sxy) \div (sxx * syy)))

correlation(series1, series2) ==
    IF Len(series1) > 1 THEN Corr(series1, series2) ELSE NaN

\* Series.mean
spread_mean(spread) == F(TDiv(Scale * SumSeq(spread), Len(spread)))

\* Series.std: the sample standard deviation (ddof = 1), not-a-number for a
\* single value
spread_std(spread) ==
    LET n == Len(spread)
    IN IF n < 2 THEN NaN
       ELSE F(ISqrt((Scale * Scale * CoMoment(spread, spread)) \div (n * (n - 1))))

z_score(cur, mean, std) ==
    IF FNe(std, F(0)) THEN FDiv(FSub(F(Scale * cur), mean), std) ELSE F(0)

p_reverse(z) == FSub(F(Scale), FDivInt(FAbs(z), 3))

mean_rev_prob(p) == PyMax(PyMin(p, F(Scale)), F(0))

total_score(corr, prob, z) ==
    FAdd(FAdd(FMulInt(FAbs(corr), 2), FMulInt(prob, 3)), FMulInt(FAbs(z), 1))

\* faulty variant: < for <=
is_max_Strict(high, cur) == 100 * (high - cur) < 5 * Abs(high)
\* faulty variant: abs() is left out
is_min_NoAbs(cur, low) == 100 * (cur - low) <= 5 * low

\* (highest - current) <= 0.05 * abs(highest), in hundredths
is_max(high, cur) == 100 * (high - cur) <= 5 * Abs(high)
\* (current - lowest) <= 0.05 * abs(lowest)
is_min(cur, low) == 100 * (cur - low) <= 5 * Abs(low)

\* lines 83-121: everything the body computes from the aligned series
Stats(series1, series2) ==
    LET spread == Spread(series1, series2)
        high == highest(spread)
        low == lowest(spread)
        cur == current(spread)
        corr == correlation(series1, series2)
        z == z_score(cur, spread_mean(spread), spread_std(spread))
        prob == mean_rev_prob(p_reverse(z))
    IN [spread |-> spread, highest |-> high, lowest |-> low, current |-> cur,
        correlation |-> corr, z_score |-> z, mean_rev_prob |-> prob,
        total_score |-> total_score(corr, prob, z),
        is_max |-> is_max(high, cur), is_min |-> is_min(cur, low)]

\* faulty variant: is_min is tested first
signal_type_MinFirst(st) == IF st.is_min THEN "Min level" ELSE "Max level"

\* lines 124-135: the branch taken when is_max or is_min holds
signal_type(st) == IF st.is_max THEN "Max level" ELSE "Min level"
risk(st) ==
    IF st.is_max THEN st.highest - st.current ELSE st.current - st.lowest
reward(st) ==
    IF st.is_max THEN st.current - st.lowest ELSE st.highest - st.current
LongOf(t1, t2, st) == IF st.is_max THEN t2 ELSE t1
ShortOf(t1, t2, st) == IF st.is_max THEN t1 ELSE t2

\* the formatted message: its template and the values it prints
Message(t1, t2, st) ==
    [text |-> "pair reached",
     args |-> <<t1, t2, signal_type(st), risk(st), reward(st), st.correlation,
                st.z_score, st.mean_rev_prob, st.total_score>>]

\* the record appended to pair_scores
Signal(t1, t2, st) ==
    [message |-> Message(t1, t2, st),
     total_score |-> st.total_score,
     ticker1 |-> t1,
     ticker2 |-> t2,
     signal_type |-> signal_type(st),
     correlation |-> st.correlation,
     z_score |-> st.z_score,
     mean_reversion_prob |-> st.mean_rev_prob,
     risk |-> risk(st),
     reward |-> reward(st),
     spread |-> st.spread]

\* the three accumulators of the loop
Acc(ps, lp, sp) ==
    [pair_scores |-> ps, long_positions |-> lp, short_positions |-> sp]

\* faulty variant: the "Min level" branch does not append to short_positions
Classify_NoShortOnMin(t1, t2, st, acc) ==
    IF st.is_max \/ st.is_min
    THEN Acc(Append(acc.pair_scores, Signal(t1, t2, st)),
             Append(acc.long_positions, LongOf(t1, t2, st)),
             IF st.is_max THEN Append(acc.short_positions, t1)
             ELSE acc.short_positions)
    ELSE acc

\* lines 123-160
Classify(t1, t2, st, acc) ==
    IF st.is_max \/ st.is_min
    THEN Acc(Append(acc.pair_scores, Signal(t1, t2, st)),
             Append(acc.long_positions, LongOf(t1, t2, st)),
             Append(acc.short_positions, ShortOf(t1, t2, st)))
    ELSE acc

\* which way one iteration goes, given what the two fetches returned
Outcome(data1, data2) ==
    IF data1.none \/ data2.none THEN "nodata"
    ELSE IF AlignedWeeks(data1.rows, data2.rows) = <<>> THEN "nooverlap"
    ELSE "analysed"

\* one iteration of the loop on (t1, t2): the accumulators after it
LoopBody(t1, t2, data1, data2, acc) ==
    IF Outcome(data1, data2) # "analysed" THEN acc
    ELSE LET weeks == AlignedWeeks(data1.rows, data2.rows)
             st == Stats(AlignedColumn(data1.rows, weeks),
                         AlignedColumn(data2.rows, weeks))
         IN Classify(t1, t2, st, acc)

\* itertools.combinations(tickers, 2), as pairs of positions
RECURSIVE CombinationsFrom(_, _, _)
CombinationsFrom(i, j, n) ==
    IF i >= n THEN <<>>
    ELSE IF j > n THEN CombinationsFrom(i + 1, i + 2, n)
    ELSE <<<<i, j>>>> \o CombinationsFrom(i, j + 1, n)
Combinations(n) == CombinationsFrom(1, 2, n)

----------------------------------------------------------------------------
\* Ranking and aggregation

\* the comparison list.sort makes on the keys: key(x) < key(y)
ISLT(x, y) == FLt(x.total_score, y.total_score)

\* list.sort on fewer than 64 elements (CPython listsort): count_run finds the
\* run the list starts with, non-descending or strictly descending (and then
\* reversed in place); binarysort inserts the rest, each element after the
\* elements it is not smaller than.
RECURSIVE count_run(_, _, _)
count_run(s, n, descending) ==
    IF n < Len(s) /\ (ISLT(s[n + 1], s[n]) <=> descending)
    THEN count_run(s, n + 1, descending)
    ELSE n

RECURSIVE BinaryPosition(_, _, _, _)
BinaryPosition(s, pivot, l, r) ==
    IF l >= r THEN l
    ELSE LET p == l + ((r - l) \div 2)
         IN IF ISLT(pivot, s[p]) THEN BinaryPosition(s, pivot, l, p)
            ELSE BinaryPosition(s, pivot, p + 1, r)

RECURSIVE binarysort(_, _)
binarysort(s, start) ==
    IF start > Len(s) THEN s
    ELSE LET l == BinaryPosition(s, s[start], 1, start)
         IN binarysort(SubSeq(s, 1, l - 1) \o <<s[start]>>
                           \o SubSeq(s, l, start - 1)
                           \o SubSeq(s, start + 1, Len(s)),
                       start + 1)

\* ascending and stable
listsort(s) ==
    IF Len(s) < 2 THEN s
    ELSE LET descending == ISLT(s[2], s[1])
             n == count_run(s, 2, descending)
             run == IF descending THEN Reverse(SubSeq(s, 1, n)) ELSE SubSeq(s, 1, n)
         IN binarysort(run \o SubSeq(s, n + 1, Len(s)), n + 1)

\* pair_scores.sort(key=total_score, reverse=True): the list is reversed,
\* sorted ascending, and reversed again, which keeps equal keys in their order
SortSignals(ps) == Reverse(listsort(Reverse(ps)))

\* the position of a symbol in alphabetical order
Ord(t) == CHOOSE i \in 1..Len(Universe) : Universe[i] = t

\* Counter(positions).items()
CounterItems(positions) ==
    {<<t, Cardinality({i \in 1..Len(positions) : positions[i] = t})>> :
        t \in {positions[i] : i \in 1..Len(positions)}}

\* sorted(items, key=lambda x: (-x[1], x[0]))
RECURSIVE SortedItems(_)
SortedItems(items) ==
    IF items = {} THEN <<>>
    ELSE LET first == CHOOSE x \in items : \A y \in items :
                          \/ x[2] > y[2]
                          \/ x[2] = y[2] /\ Ord(x[1]) <= Ord(y[1])
         IN <<first>> \o SortedItems(items \ {first})

\* a chunk of text: its template and the values it prints
Line(text) == [text |-> text, args |-> <<>>]
ItemLine(item) == [text |-> "t (c)", args |-> item]

SummaryLines(sorted) ==
    IF sorted # <<>> THEN [i \in 1..Len(sorted) |-> ItemLine(sorted[i])]
    ELSE <<Line("None")>>

position_summary(sorted_longs, sorted_shorts) ==
    <<Line(""), Line("===="), Line("POSITION SUMMARY"), Line("===="), Line(""),
      Line("LONGS:")>>
    \o SummaryLines(sorted_longs)
    \o <<Line(""), Line("SHORTS:")>>
    \o SummaryLines(sorted_shorts)

\* faulty variant: the header and the summary are written whatever sorted_messages is
Written_NoBranch(sorted_messages, summary) ==
    <<[text |-> "PAIR TRADING SIGNALS (SORTED BY SCORE)", args |-> <<>>],
      [text |-> "====", args |-> <<>>]>> \o sorted_messages \o summary

\* what the with-block writes to output_file
Written(sorted_messages, summary) ==
    IF sorted_messages # <<>>
    THEN <<Line("PAIR TRADING SIGNALS (SORTED BY SCORE)"), Line("====")>>
         \o sorted_messages \o summary
    ELSE <<Line("No pair signals detected.")>>

----------------------------------------------------------------------------
\* analyze_ticker_pairs: one step per iteration of the loop, one for the rest

NoResult == [pair_signals |-> <<>>, longs |-> <<>>, shorts |-> <<>>,
             position_summary_text |-> <<>>]
NoAcc == Acc(<<>>, <<>>, <<>>)

Prefixes(s) == {SubSeq(s, 1, n) : n \in 0..Len(s)}
\* what yf.download can do for a ticker: raise, or return a frame
DataFrames(n, P) == [raises : {FALSE}, rows : SeriesOver(n, P)]
Frames(n, P) ==
    [raises : {TRUE}, rows : {<<>>}] \cup [raises : {FALSE}, rows : {<<>>}]
        \cup DataFrames(n, P)

Init ==
    /\ tickers \in Prefixes(Universe)
    /\ yf \in [{tickers[i] : i \in 1..Len(tickers)} -> Frames(MaxWeeks, Closes)]
    /\ pc = "loop"
    /\ k = 1
    /\ pair_scores = <<>>
    /\ long_positions = <<>>
    /\ short_positions = <<>>
    /\ result = NoResult
    /\ file = <<>>
    /\ visited = <<>>
    /\ opens = 0
    /\ accAB = NoAcc
    /\ accBA = NoAcc

Pairs == Combinations(Len(tickers))
ticker1 == tickers[Pairs[k][1]]
ticker2 == tickers[Pairs[k][2]]

\* the loop is at a pair whose iteration goes the way o
At(o) ==
    /\ pc = "loop"
    /\ k <= Len(Pairs)
    /\ Outcome(fetch_ticker_data(ticker1), fetch_ticker_data(ticker2)) = o

\* lines 61-65: a fetch returned None, continue
SkipNoData ==
    /\ At("nodata")
    /\ k' = k + 1
    /\ visited' = Append(visited, <<ticker1, ticker2, "nodata">>)
    /\ UNCHANGED <<tickers, yf, pc, pair_scores, long_positions,
                   short_positions, result, file, opens, accAB, accBA>>

\* lines 61-80: the aligned frame is empty, continue
SkipNoOverlap ==
    /\ At("nooverlap")
    /\ k' = k + 1
    /\ visited' = Append(visited, <<ticker1, ticker2, "nooverlap">>)
    /\ UNCHANGED <<tickers, yf, pc, pair_scores, long_positions,
                   short_positions, result, file, opens, accAB, accBA>>

\* lines 61-160: the pair is analysed, and recorded if it is a signal
Analyse ==
    /\ At("analysed")
    /\ LET acc == LoopBody(ticker1, ticker2, fetch_ticker_data(ticker1),
                           fetch_ticker_data(ticker2),
                           Acc(pair_scores, long_positions, short_positions))
       IN /\ pair_scores' = acc.pair_scores
          /\ long_positions' = acc.long_positions
          /\ short_positions' = acc.short_positions
    /\ k' = k + 1
    /\ visited' = Append(visited, <<ticker1, ticker2, "analysed">>)
    /\ UNCHANGED <<tickers, yf, pc, result, file, opens, accAB, accBA>>

\* lines 162-208, after the last pair
Report ==
    /\ pc = "loop"
    /\ k > Len(Pairs)
    /\ LET sorted_scores == SortSignals(pair_scores)
           sorted_messages == [i \in 1..Len(sorted_scores) |-> sorted_scores[i].message]
           sorted_longs == SortedItems(CounterItems(long_positions))
           sorted_shorts == SortedItems(CounterItems(short_positions))
           summary == position_summary(sorted_longs, sorted_shorts)
       IN /\ pair_scores' = sorted_scores
          /\ file' = Written(sorted_messages, summary)
          /\ result' = [pair_signals |-> sorted_scores,
                        longs |-> sorted_longs,
                        shorts |-> sorted_shorts,
                        position_summary_text |-> summary]
    /\ opens' = opens + 1
    /\ pc' = "done"
    /\ UNCHANGED <<tickers, yf, k, long_positions, short_positions, visited,
                   accAB, accBA>>

Next == SkipNoData \/ SkipNoOverlap \/ Analyse \/ Report

Spec == Init /\ [][Next]_vars

----------------------------------------------------------------------------
\* The loop body on one pair in both orders: (A, B), then (B, A)

InitPair ==
    /\ tickers = <<"A", "B">>
    /\ yf \in [{"A", "B"} -> DataFrames(PairWeeks, PairCloses)]
    /\ pc = "pair0"
    /\ k = 1
    /\ pair_scores = <<>>
    /\ long_positions = <<>>
    /\ short_positions = <<>>
    /\ result = NoResult
    /\ file = <<>>
    /\ visited = <<>>
    /\ opens = 0
    /\ accAB = NoAcc
    /\ accBA = NoAcc

AnalyseAB ==
    /\ pc = "pair0"
    /\ pc' = "pair1"
    /\ accAB' = LoopBody("A", "B", fetch_ticker_data("A"), fetch_ticker_data("B"),
                         NoAcc)
    /\ UNCHANGED <<tickers, yf, k, pair_scores, long_positions, short_positions,
                   result, file, visited, opens, accBA>>

AnalyseBA ==
    /\ pc = "pair1"
    /\ pc' = "pair2"
    /\ accBA' = LoopBody("B", "A", fetch_ticker_data("B"), fetch_ticker_data("A"),
                         NoAcc)
    /\ UNCHANGED <<tickers, yf, k, pair_scores, long_positions, short_positions,
                   result, file, visited, opens, accAB>>

NextPair == AnalyseAB \/ AnalyseBA

SpecPair == InitPair /\ [][NextPair]_vars

----------------------------------------------------------------------------
\* Properties

\* The classification thresholds as the specification states them:
\* is_max := (highest - current) <= 0.05 * |highest|, that is
\* 20 * (highest - current) <= |highest|, and likewise is_min.
AtMax(spread) ==
    20 * (MaxSeq(spread) - spread[Len(spread)]) <= Abs(MaxSeq(spread))
AtMin(spread) ==
    20 * (spread[Len(spread)] - MinSeq(spread)) <= Abs(MinSeq(spread))
Flat(spread) == \A i, j \in 1..Len(spread) : spread[i] = spread[j]
TickerSet == {tickers[i] : i \in 1..Len(tickers)}
NoDataFor(t) == yf[t].raises \/ DOMAIN yf[t].rows = {}
SumCounts(items) == SumSeq([i \in 1..Len(items) |-> items[i][2]])

\* C1: a pair with fewer than 2 aligned points is excluded: no record of
\* pair_scores is for such a pair, and the tallies hold one entry per record of
\* a pair with at least 2 points.
C1_ShortPairExcluded ==
    LET scored == {i \in 1..Len(pair_scores) : Len(pair_scores[i].spread) >= 2}
    IN /\ \A i \in 1..Len(pair_scores) : i \in scored
       /\ Len(long_positions) = Cardinality(scored)
       /\ Len(short_positions) = Cardinality(scored)

\* C3: the returned pair_signals are in descending order of total_score, equal
\* scores in discovery order, and the written messages follow the same order.
Discovery(r) ==
    CHOOSE n \in 1..Len(visited) :
        visited[n][1] = r.ticker1 /\ visited[n][2] = r.ticker2
C3_Ranked ==
    pc = "done" =>
        LET ps == result.pair_signals
        IN /\ \A i, j \in 1..Len(ps) :
                  i < j =>
                      /\ FGe(ps[i].total_score, ps[j].total_score)
                      /\ ps[i].total_score = ps[j].total_score
                             => Discovery(ps[i]) < Discovery(ps[j])
           /\ ps # <<>> =>
                  \A i \in 1..Len(ps) : file[2 + i] = ps[i].message

\* C3 where every score is a number: the same statement for the runs in which
\* no recorded total_score is not-a-number.
C3_RankedDefined ==
    (\A i \in 1..Len(pair_scores) : ~pair_scores[i].total_score.nan) => C3_Ranked
C3_RankedDefinedWitness ==
    /\ pc = "done"
    /\ Len(pair_scores) = 3
    /\ \A i \in 1..3 : ~pair_scores[i].total_score.nan
    /\ pair_scores[1].total_score = pair_scores[2].total_score
    /\ pair_scores[2].total_score # pair_scores[3].total_score
    /\ Discovery(pair_scores[3]) = 1

\* C4: the signals, the long recommendations and the short recommendations are
\* equally many at every point of the run, each signal has put one of its two
\* instruments in each list, and the counts of each returned tally sum to the
\* number of returned signals.
C4_Tally ==
    /\ Len(long_positions) = Len(pair_scores)
    /\ Len(short_positions) = Len(pair_scores)
    /\ pc = "loop" =>
           \A i \in 1..Len(pair_scores) :
               /\ {long_positions[i], short_positions[i]}
                      = {pair_scores[i].ticker1, pair_scores[i].ticker2}
               /\ long_positions[i] # short_positions[i]
    /\ pc = "done" =>
           /\ SumCounts(result.longs) = Len(result.pair_signals)
           /\ SumCounts(result.shorts) = Len(result.pair_signals)
C4_Witness ==
    /\ pc = "done"
    /\ Len(result.pair_signals) = 3
    /\ \E i \in 1..Len(result.longs) : result.longs[i][2] = 2
    /\ Len(result.shorts) = 2

C6_ZeroStdGuard ==
    \A i \in 1..Len(pair_scores) :
        Flat(pair_scores[i].spread) => pair_scores[i].z_score = F(0)

\* C6 for two or more points: a flat spread of at least 2 points has z_score 0.
C6_ZeroStdTwoPoints ==
    \A i \in 1..Len(pair_scores) :
        Flat(pair_scores[i].spread) /\ Len(pair_scores[i].spread) >= 2
            => pair_scores[i].z_score = F(0)

\* C8: whatever the fetches and intersections are, every iteration ends in one
\* of the three outcomes that go on to the next pair, the report is written
\* once, after every pair has been visited in the order of the combinations,
\* and with no signal it is the single line "No pair signals detected.".
C8_ReportOnce ==
    /\ pc = "loop" =>
           /\ opens = 0
           /\ file = <<>>
           /\ Len(visited) = k - 1
           /\ k <= Len(Pairs) + 1
           /\ \A n \in 1..Len(visited) :
                  visited[n][3] \in {"nodata", "nooverlap", "analysed"}
    /\ pc = "done" =>
           /\ opens = 1
           /\ Len(visited) = Len(Pairs)
           /\ \A n \in 1..Len(Pairs) :
                  /\ visited[n][1] = tickers[Pairs[n][1]]
                  /\ visited[n][2] = tickers[Pairs[n][2]]
           /\ file # <<>>
           /\ pair_scores = <<>> => file = <<Line("No pair signals detected.")>>
C8_Witness ==
    /\ pc = "done"
    /\ file = <<Line("No pair signals detected.")>>
    /\ Len(visited) = 3
    /\ \E n \in 1..3 : visited[n][3] = "nooverlap"
    /\ \E n \in 1..3 : visited[n][3] = "nodata"
    /\ \E t \in TickerSet : yf[t].raises

\* C10: every record has 0 <= mean_reversion_prob <= 1, risk >= 0, reward >= 0
\* and risk + reward = highest - lowest of its spread.
C10_Ranges ==
    \A i \in 1..Len(pair_scores) :
        LET r == pair_scores[i]
        IN /\ FGe(r.mean_reversion_prob, F(0))
           /\ FGe(F(Scale), r.mean_reversion_prob)
           /\ r.risk >= 0
           /\ r.reward >= 0
           /\ r.risk + r.reward = MaxSeq(r.spread) - MinSeq(r.spread)

\* C10 for two or more points: the ranges hold for every record of a pair with
\* at least 2 aligned points.
C10_RangesTwoPoints ==
    \A i \in 1..Len(pair_scores) :
        LET r == pair_scores[i]
        IN Len(r.spread) >= 2 =>
               /\ FGe(r.mean_reversion_prob, F(0))
               /\ FGe(F(Scale), r.mean_reversion_prob)
               /\ r.risk >= 0
               /\ r.reward >= 0
               /\ r.risk + r.reward = MaxSeq(r.spread) - MinSeq(r.spread)

----------------------------------------------------------------------------
\* Properties of the loop body on one pair (SpecPair)

\* the aligned spread of (t1, t2), <<>> when the series share no week
SpreadFor(t1, t2) ==
    LET weeks == AlignedWeeks(yf[t1].rows, yf[t2].rows)
    IN Spread(AlignedColumn(yf[t1].rows, weeks), AlignedColumn(yf[t2].rows, weeks))

Recorded(acc) == Len(acc.pair_scores) = 1

\* C7: when is_max and is_min both hold for a pair, its record is the
\* "Max level" one, the second instrument is added to the longs and the first
\* to the shorts.
C7_For(acc) ==
    \A i \in 1..Len(acc.pair_scores) :
        LET r == acc.pair_scores[i]
        IN AtMax(r.spread) /\ AtMin(r.spread) =>
               /\ r.signal_type = "Max level"
               /\ acc.long_positions[i] = r.ticker2
               /\ acc.short_positions[i] = r.ticker1
               /\ r.risk = MaxSeq(r.spread) - r.spread[Len(r.spread)]
C7_MaxPriority ==
    /\ pc \in {"pair1", "pair2"} =>
           /\ C7_For(accAB)
           /\ LET s == SpreadFor("A", "B")
              IN s # <<>> /\ AtMax(s) /\ AtMin(s) => Recorded(accAB)
    /\ pc = "pair2" => C7_For(accBA)
C7_Witness ==
    /\ pc = "pair2"
    /\ Recorded(accAB)
    /\ LET r == accAB.pair_scores[1]
       IN AtMax(r.spread) /\ AtMin(r.spread) /\ ~Flat(r.spread) /\ r.risk > 0

\* C9: an analysed pair is recorded iff is_max or is_min holds; with is_max it
\* is long the second and short the first instrument, risk = highest - current,
\* reward = current - lowest; with is_min alone long the first, short the
\* second, risk = current - lowest, reward = highest - current.
C9_For(acc, t1, t2) ==
    LET s == SpreadFor(t1, t2)
        high == MaxSeq(s)
        low == MinSeq(s)
        cur == s[Len(s)]
    IN IF s = <<>> \/ ~(AtMax(s) \/ AtMin(s)) THEN acc = NoAcc
       ELSE /\ Recorded(acc)
            /\ acc.pair_scores[1].ticker1 = t1
            /\ acc.pair_scores[1].ticker2 = t2
            /\ acc.pair_scores[1].spread = s
            /\ IF AtMax(s)
               THEN /\ acc.long_positions = <<t2>>
                    /\ acc.short_positions = <<t1>>
                    /\ acc.pair_scores[1].risk = high - cur
                    /\ acc.pair_scores[1].reward = cur - low
               ELSE /\ acc.long_positions = <<t1>>
                    /\ acc.short_positions = <<t2>>
                    /\ acc.pair_scores[1].risk = cur - low
                    /\ acc.pair_scores[1].reward = high - cur
C9_Classification ==
    /\ pc \in {"pair1", "pair2"} => C9_For(accAB, "A", "B")
    /\ pc = "pair2" => C9_For(accBA, "B", "A")
C9_Witness ==
    /\ pc = "pair2"
    /\ Recorded(accAB)
    /\ accAB.pair_scores[1].signal_type = "Min level"
    /\ accAB.pair_scores[1].risk > 0
    /\ accAB.long_positions = <<"A">>

\* C2 as stated: (A, B) and (B, A) give a signal together or not at all, and
\* then risk and reward are mirrored, the long and short recommendations are
\* inverted, and correlation, |z_score| and total_score are the same.
C2_Mirrored ==
    pc = "pair2" =>
        /\ Recorded(accAB) <=> Recorded(accBA)
        /\ Recorded(accAB) =>
               LET ab == accAB.pair_scores[1]
                   ba == accBA.pair_scores[1]
               IN /\ ba.risk = ab.reward
                  /\ ba.reward = ab.risk
                  /\ accBA.long_positions = accAB.short_positions
                  /\ accBA.short_positions = accAB.long_positions
                  /\ ba.correlation = ab.correlation
                  /\ FAbs(ba.z_score) = FAbs(ab.z_score)
                  /\ ba.total_score = ab.total_score

\* C2 amended: (A, B) and (B, A) give a signal together or not at all, with
\* the same correlation, |z_score|, mean_reversion_prob and total_score (each
\* not-a-number in both or in neither) and the spread negated.  When exactly
\* one of is_max and is_min holds, the signal type is inverted while the
\* instruments recommended long and short and the risk and reward are the same
\* in both orders; when both hold, both orders are "Max level" and the long and
\* short instruments and the risk and reward are swapped.
C2_Symmetry ==
    pc = "pair2" =>
        /\ Recorded(accAB) <=> Recorded(accBA)
        /\ accAB = NoAcc <=> accBA = NoAcc
        /\ Recorded(accAB) =>
               LET ab == accAB.pair_scores[1]
                   ba == accBA.pair_scores[1]
               IN /\ ba.spread = [i \in 1..Len(ab.spread) |-> -ab.spread[i]]
                  /\ ba.correlation = ab.correlation
                  /\ FAbs(ba.z_score) = FAbs(ab.z_score)
                  /\ ba.z_score = FSub(F(0), ab.z_score)
                  /\ ba.mean_reversion_prob = ab.mean_reversion_prob
                  /\ ba.total_score = ab.total_score
                  /\ IF AtMax(ab.spread) /\ AtMin(ab.spread)
                     THEN /\ ab.signal_type = "Max level"
                          /\ ba.signal_type = "Max level"
                          /\ ba.risk = ab.reward
                          /\ ba.reward = ab.risk
                          /\ accBA.long_positions = accAB.short_positions
                          /\ accBA.short_positions = accAB.long_positions
                     ELSE /\ ba.signal_type # ab.signal_type
                          /\ ba.risk = ab.risk
                          /\ ba.reward = ab.reward
                          /\ accBA.long_positions = accAB.long_positions
                          /\ accBA.short_positions = accAB.short_positions
C2_Witness ==
    /\ pc = "pair2"
    /\ Recorded(accAB)
    /\ Recorded(accBA)
    /\ LET ab == accAB.pair_scores[1]
       IN /\ ~(AtMax(ab.spread) /\ AtMin(ab.spread))
          /\ ab.risk # ab.reward
          /\ ~ab.correlation.nan
          /\ ab.z_score.val # 0
          /\ Len(ab.spread) = 3

====
